---- MODULE Spec2Model ----
(***************************************************************************)
(* LekkerChat content script (src/content.js): replay of a timestamped     *)
(* chat log against a seekable video.  The model covers the module-level   *)
(* state, the 100 ms sampling callback installed by onVideoReady, the      *)
(* staggered setTimeout reveals, the popup message handlers, init() with   *)
(* its await points, and cleanup().                                        *)
(*                                                                         *)
(* Time: the clock advances in steps of UPDATE_INTERVAL ms, and a live     *)
(* sampling loop runs its callback at each step.  A pending setTimeout     *)
(* carries "rem" and a polling init() call carries "due": the ms left      *)
(* until it runs, measured from the last step.  What is due before the     *)
(* next step runs first.  A timer is set in a sampling callback, so one    *)
(* due exactly at the next step may run on either side of that callback;   *)
(* an init() call starts waiting between two steps, so its poll runs       *)
(* between the step that brings due to 0 and the one after.                *)
(***************************************************************************)
EXTENDS Integers, Sequences, FiniteSets, TLC

VARIABLES
    chatData,       \* [loaded, vid, comments]: the log; loaded = FALSE is null
    shownMessages,  \* Set of comment objects
    messageList,    \* [present, children]: the <ul>; present = FALSE is null
    videoInterval,  \* id of the sampling interval held by the variable; 0 is null
    intervals,      \* ids of the setInterval sampling loops that are live
    video,          \* TRUE iff the variable holds a video element
    lastSecond,
    isActive,
    config,         \* [loaded, timeOffset, enableSync]; loaded = FALSE is null
    duration,       \* duration of the page's <video>, in half seconds: <<d>>,
                    \* or <<>> while it is NaN or there is no element
    detached,       \* TRUE iff the element the variable video holds has been
                    \* removed from the document
    pending,        \* setTimeout callbacks not yet run, by due time:
                    \* <<[comment, rem, torn]>>; torn is history, read by no action
    calls,          \* init() calls in flight: [pc, vid] -> how many stand at that await
    url,            \* video id of the page, as the URL monitor last saw it
    inits           \* number of init() calls made since the run began

vars == <<chatData, shownMessages, messageList, videoInterval, intervals, video,
          lastSecond, isActive, config, duration, detached, pending, calls, url,
          inits>>

----------------------------------------------------------------------------
(* Program constants: CONSTANTS in src/content.js                          *)

UPDATE_INTERVAL == 100
CHAT_CHECK_INTERVAL == 1000
VIDEO_CHECK_INTERVAL == 500
SKIP_THRESHOLD == 15
PREVIOUS_MESSAGES_COUNT == 25
StaggerWindow == 1000

(* Bounds of the model                                                     *)

MaxSecond == 2       \* near playback positions are 0..MaxSecond
FarSecond == 20      \* one far position, more than SKIP_THRESHOLD away
MaxPending == 3      \* cap on timers in flight
MaxInits == 1        \* cap on init() calls made after the page's first one

----------------------------------------------------------------------------
(* Values                                                                  *)

Max(a, b) == IF a >= b THEN a ELSE b
Min(a, b) == IF a <= b THEN a ELSE b
Abs(a) == IF a >= 0 THEN a ELSE -a

\* A comment object.  gen and idx give the object its identity (a log fetched
\* again is a new array of new objects); ts is content_offset_seconds; bad
\* marks a comment whose author record makes createChatMessage throw.
Comment(g, i, t, b) == [gen |-> g, idx |-> i, ts |-> t, bad |-> b]

RECURSIVE MakeComments(_, _, _, _)
MakeComments(g, tss, bads, i) ==
    IF i > Len(tss) THEN <<>>
    ELSE <<Comment(g, i, tss[i], i \in bads)>> \o MakeComments(g, tss, bads, i + 1)

\* Logs the fetch can deliver: ascending content_offset_seconds.
LogStamps == <<1, 1, 1, 2, FarSecond>>
ShortStamps == <<FarSecond, FarSecond>>

NoData == [loaded |-> FALSE, vid |-> 0, comments |-> <<>>]
Data(v, cs) == [loaded |-> TRUE, vid |-> v, comments |-> cs]
NoList == [present |-> FALSE, children |-> <<>>]
EmptyList == [present |-> TRUE, children |-> <<>>]

Videos == {1, 2}

\* video.currentTime, in half seconds: the near seconds, second 0 and the
\* far second also half a second in
CurrentTimes == {2 * sec : sec \in 0 .. MaxSecond} \cup {1, 2 * FarSecond, 2 * FarSecond + 1}
Offsets == {0, 1}

Floor(t) == t \div 2

----------------------------------------------------------------------------
(* getTimeOffset, reading the configuration cfg that is current when the   *)
(* query runs (config is loaded before any session starts)                 *)

(* calculateSmartDefaultOffset (content.js 726-758).  The duration is in   *)
(* half seconds, the log's timestamps in seconds; 0, NaN and null are      *)
(* falsy.                                                                  *)
fallbackOffset == 900
OffsetLimit == 3600

lastChatTimestamp ==
    IF chatData.loaded /\ Len(chatData.comments) > 0
    THEN <<chatData.comments[Len(chatData.comments)].ts>>
    ELSE <<>>

calculatedOffset(videoDuration, last) == (videoDuration - 2 * last) \div 2

calculateSmartDefaultOffset_StrictBounds ==
    IF /\ duration # <<>> /\ lastChatTimestamp # <<>>
       /\ duration[1] > 0 /\ lastChatTimestamp[1] > 0
       /\ calculatedOffset(duration[1], lastChatTimestamp[1]) > -OffsetLimit
       /\ calculatedOffset(duration[1], lastChatTimestamp[1]) < OffsetLimit
    THEN calculatedOffset(duration[1], lastChatTimestamp[1])
    ELSE fallbackOffset

calculateSmartDefaultOffset ==
    IF /\ duration # <<>> /\ lastChatTimestamp # <<>>
       /\ duration[1] > 0 /\ lastChatTimestamp[1] > 0
       /\ calculatedOffset(duration[1], lastChatTimestamp[1]) >= -OffsetLimit
       /\ calculatedOffset(duration[1], lastChatTimestamp[1]) <= OffsetLimit
    THEN calculatedOffset(duration[1], lastChatTimestamp[1])
    ELSE fallbackOffset

(* getTimeOffset (content.js 763-770): config?.timeOffset !== undefined    *)
getTimeOffset_Truthy(cfg) ==
    IF cfg.loaded /\ cfg.timeOffset # 0 THEN cfg.timeOffset
    ELSE calculateSmartDefaultOffset

getTimeOffset(cfg) ==
    IF cfg.loaded THEN cfg.timeOffset
    ELSE calculateSmartDefaultOffset

\* comment.content_offset_seconds + getTimeOffset(), evaluated in each query
Adjusted_Cached(c, cfg) == c.ts + getTimeOffset(config)
Adjusted(c, cfg) == c.ts + getTimeOffset(cfg)

Range(s) == {s[i] : i \in 1 .. Len(s)}

(* createChatMessage: throws for a malformed comment once it gets past the *)
(* guard on chatData.commenters                                            *)
SinkThrows(c) == c.bad /\ chatData.loaded

(* showMessage.  st = [shown, list, threw] is the pair of globals the      *)
(* reveal functions write, threaded through one handler; threw records     *)
(* that an exception is propagating.                                       *)
showMessage(st, c) ==
    IF ~st.list.present THEN st
    ELSE IF SinkThrows(c)
         THEN [st EXCEPT !.shown = @ \cup {c}, !.threw = TRUE]
         ELSE [st EXCEPT !.shown = @ \cup {c},
                         !.list.children = Append(@, c)]

\* comments.forEach(comment => showMessage(comment)): an exception ends the loop
RECURSIVE forEachShow(_, _)
forEachShow(st, cs) ==
    IF cs = <<>> \/ st.threw THEN st
    ELSE forEachShow(showMessage(st, Head(cs)), Tail(cs))

\* try { ... } catch (error) { console.error(...) }: the exception ends here
Caught_Rethrown(st) == st
Caught(st) == [st EXCEPT !.threw = FALSE]

(* showPreviousMessages (content.js 570-592).  firstIdx is an index into   *)
(* the REVERSED copy of the log; the loop then indexes the log itself with *)
(* it.  Indices are 0-based as in the source; comments[i + 1] is the       *)
(* source's chatData.comments[i].                                          *)
reverseFindIndex(cs, second, cfg) ==
    LET hits == {j \in 0 .. Len(cs) - 1 : Adjusted(cs[Len(cs) - j], cfg) < second}
    IN  IF hits = {} THEN -1
        ELSE CHOOSE j \in hits : \A k \in hits : j <= k

RECURSIVE showFromTo(_, _, _)
showFromTo(st, i, hi) ==
    IF i >= hi \/ st.threw THEN st
    ELSE LET c == chatData.comments[i + 1]
         IN  showFromTo(IF c \in st.shown THEN st ELSE showMessage(st, c), i + 1, hi)

showPreviousMessages(st, second, cfg) ==
    IF ~chatData.loaded THEN st
    ELSE LET firstIdx == reverseFindIndex(chatData.comments, second, cfg)
             startIdx == Max(0, firstIdx - PREVIOUS_MESSAGES_COUNT)
         IN  IF firstIdx # -1 THEN Caught(showFromTo(st, startIdx, firstIdx))
             ELSE st

(* The filter shared by showMissedMessages and showCurrentSecondMessages   *)
unshownAt(shown, sec, cfg) ==
    SelectSeq(chatData.comments, LAMBDA c : Adjusted(c, cfg) = sec /\ c \notin shown)

(* showMissedMessages (content.js 599-615): one try around both loops      *)
RECURSIVE missedLoop(_, _, _, _)
missedLoop(st, sec, to, cfg) ==
    IF sec > to \/ st.threw THEN st
    ELSE missedLoop(forEachShow(st, unshownAt(st.shown, sec, cfg)), sec + 1, to, cfg)

showMissedMessages(st, from, to, cfg) ==
    IF ~chatData.loaded THEN st
    ELSE Caught(missedLoop(st, from, to, cfg))

(* showCurrentSecondMessages (content.js 621-642): the setTimeout calls it *)
(* makes, in order.  The delay is a double; the timer API keeps its        *)
(* integer part.                                                           *)
staggerDelay_Unscaled(idx, count) == idx * StaggerWindow
staggerDelay(idx, count) == (idx * StaggerWindow) \div count

showCurrentSecondMessages(shown, currentSecond, cfg) ==
    IF ~chatData.loaded THEN <<>>
    ELSE LET commentsThisSecond == unshownAt(shown, currentSecond, cfg)
             count == Len(commentsThisSecond)
         IN  [i \in 1 .. count |->
                [comment |-> commentsThisSecond[i], rem |-> staggerDelay(i - 1, count),
                 torn |-> FALSE]]

(* The timer queue: a new timer runs after every timer due no later        *)
RECURSIVE setTimeouts(_, _)
setTimeouts(p, new) ==
    IF new = <<>> THEN p
    ELSE LET t == Head(new)
             before == SelectSeq(p, LAMBDA x : x.rem <= t.rem)
             after == SelectSeq(p, LAMBDA x : x.rem > t.rem)
         IN  setTimeouts(before \o <<t>> \o after, Tail(new))

elapse(p, ms) == [i \in 1 .. Len(p) |-> [p[i] EXCEPT !.rem = Max(0, @ - ms)]]

(* init() calls in flight, as a bag of [pc, vid, due]                      *)
at(pc, v, d) == [pc |-> pc, vid |-> v, due |-> d]
NoCalls == <<>>
arrive(cs, k) == IF k \in DOMAIN cs THEN [cs EXCEPT ![k] = @ + 1] ELSE cs @@ (k :> 1)
leave(cs, k) == IF cs[k] > 1 THEN [cs EXCEPT ![k] = @ - 1]
                ELSE [x \in DOMAIN cs \ {k} |-> cs[x]]
RECURSIVE sumOver(_, _)
sumOver(cs, S) == IF S = {} THEN 0
                  ELSE LET k == CHOOSE x \in S : TRUE
                       IN  cs[k] + sumOver(cs, S \ {k})
later(k) == [k EXCEPT !.due = Max(0, @ - UPDATE_INTERVAL)]
waited(cs) ==
    LET T == {later(k) : k \in DOMAIN cs}
    IN  [x \in T |-> sumOver(cs, {k \in DOMAIN cs : later(k) = x})]

\* no timer and no poll is due before the clock's next step
nothingDue ==
    /\ \A i \in 1 .. Len(pending) : pending[i].rem >= UPDATE_INTERVAL
    /\ \A k \in DOMAIN calls : k.pc = "fetch" \/ k.due >= UPDATE_INTERVAL

----------------------------------------------------------------------------
(* The sampling callback (content.js 659-682)                               *)

Store == [shown |-> shownMessages, list |-> messageList, threw |-> FALSE]
Cleared == [shown |-> {}, threw |-> FALSE,
            list |-> IF messageList.present THEN EmptyList ELSE messageList]

isSmallJump_Never(currentSecond, last) == FALSE
isLargeJump_AnyJump(currentSecond, last) == Abs(currentSecond - last) > 1
isLargeJump_Inclusive(currentSecond, last) == Abs(currentSecond - last) >= SKIP_THRESHOLD
isLargeJump_UnsetIsLarge(currentSecond, last) ==
    last = -1 \/ Abs(currentSecond - last) > SKIP_THRESHOLD
isLargeJump(currentSecond, last) == Abs(currentSecond - last) > SKIP_THRESHOLD
isSmallJump_AnyStepBack(currentSecond, last) ==
    ~isLargeJump(currentSecond, last)
        /\ (Abs(currentSecond - last) > 1 \/ currentSecond < last)
isSmallJump(currentSecond, last) ==
    ~isLargeJump(currentSecond, last) /\ Abs(currentSecond - last) > 1

\* the globals after the backfill branch of one callback
backfill(currentSecond) ==
    IF isLargeJump(currentSecond, lastSecond)
    THEN showPreviousMessages(Cleared, currentSecond, config)
    ELSE IF isSmallJump(currentSecond, lastSecond)
    THEN showMissedMessages(Store, Min(lastSecond, currentSecond) + 1,
                                   Max(lastSecond, currentSecond), config)
    ELSE Store

\* the callback returns early (content.js 660) or finds the second unchanged
\* (content.js 663)
skips_SameSecondOnly(paused, currentSecond) == ~video \/ currentSecond = lastSecond
skips(paused, currentSecond) == ~video \/ paused \/ currentSecond = lastSecond

Sample(paused, t) ==
    /\ intervals # {}
    /\ nothingDue
    /\ calls' = waited(calls)
    /\ LET currentSecond == Floor(t)
           aged == elapse(pending, UPDATE_INTERVAL)
       IN  IF skips(paused, currentSecond)
           THEN /\ pending' = aged
                /\ UNCHANGED <<shownMessages, messageList, lastSecond>>
           ELSE LET st == backfill(currentSecond)
                    \* an exception leaving the backfill branch would end the
                    \* callback before lines 679-680
                    new == IF st.threw THEN <<>>
                           ELSE showCurrentSecondMessages(st.shown, currentSecond, config)
                IN  /\ Len(aged) + Len(new) <= MaxPending
                    /\ shownMessages' = st.shown
                    /\ messageList' = st.list
                    /\ lastSecond' = IF st.threw THEN lastSecond ELSE currentSecond
                    /\ pending' = setTimeouts(aged, new)
    /\ UNCHANGED <<chatData, videoInterval, intervals, video, isActive, config,
                   url, inits>>
    /\ UNCHANGED <<duration, detached>>

(* The clock advances with no sampling loop live                           *)
Elapse ==
    /\ intervals = {}
    /\ nothingDue
    /\ pending # <<>> \/ \E k \in DOMAIN calls : k.due > 0
    /\ pending' = elapse(pending, UPDATE_INTERVAL)
    /\ calls' = waited(calls)
    /\ UNCHANGED <<chatData, shownMessages, messageList, videoInterval, intervals,
                   video, lastSecond, isActive, config, url, inits>>
    /\ UNCHANGED <<duration, detached>>

(* A staggered reveal runs (the arrow function at content.js 634-636).  An *)
(* exception in it goes to the event loop.                                 *)
FireTimer ==
    /\ pending # <<>>
    /\ Head(pending).rem <= UPDATE_INTERVAL
    /\ LET st == showMessage(Store, Head(pending).comment)
       IN  /\ shownMessages' = st.shown
           /\ messageList' = st.list
    /\ pending' = Tail(pending)
    /\ UNCHANGED <<chatData, videoInterval, intervals, video, lastSecond, isActive,
                   config, calls, url, inits>>
    /\ UNCHANGED <<duration, detached>>

(* refreshChatWithNewOffset (content.js 962-977), t = video.currentTime,   *)
(* cfg = the configuration just stored                                     *)
refreshChatWithNewOffset_StaleOffset(t, cfg) ==
    IF ~video \/ ~chatData.loaded \/ ~messageList.present
    THEN UNCHANGED <<shownMessages, messageList, lastSecond>>
    ELSE LET st == showPreviousMessages(Cleared, Floor(t), config)
         IN  /\ shownMessages' = st.shown
             /\ messageList' = st.list
             /\ lastSecond' = -1

refreshChatWithNewOffset(t, cfg) ==
    IF ~video \/ ~chatData.loaded \/ ~messageList.present
    THEN UNCHANGED <<shownMessages, messageList, lastSecond>>
    ELSE LET st == showPreviousMessages(Cleared, Floor(t), cfg)
         IN  /\ shownMessages' = st.shown
             /\ messageList' = st.list
             /\ lastSecond' = -1

(* The page removes the <video> element the session samples.  No listener  *)
(* of the content script runs; the variable video keeps the element.       *)
VideoRemoved ==
    /\ video /\ ~detached
    /\ detached' = TRUE
    /\ UNCHANGED <<chatData, shownMessages, messageList, videoInterval, intervals,
                   video, lastSecond, isActive, config, duration, pending, calls,
                   url, inits>>

(* handleMessage, case 'updateSettings' (content.js 823-834)               *)
UpdateSettings_ActiveIgnored(newOffset, t) ==
    /\ config' = [config EXCEPT !.loaded = TRUE, !.timeOffset = newOffset]
    /\ IF (~config.loaded \/ config.timeOffset # newOffset) /\ video
       THEN refreshChatWithNewOffset(t, [config EXCEPT !.loaded = TRUE,
                                                       !.timeOffset = newOffset])
       ELSE UNCHANGED <<shownMessages, messageList, lastSecond>>
    /\ UNCHANGED <<chatData, videoInterval, intervals, video, isActive, pending,
                   calls, url, inits>>
    /\ UNCHANGED <<duration, detached>>

UpdateSettings(newOffset, t) ==
    /\ config' = [config EXCEPT !.loaded = TRUE, !.timeOffset = newOffset]
    /\ IF (~config.loaded \/ config.timeOffset # newOffset) /\ isActive /\ video
       THEN refreshChatWithNewOffset(t, [config EXCEPT !.loaded = TRUE,
                                                       !.timeOffset = newOffset])
       ELSE UNCHANGED <<shownMessages, messageList, lastSecond>>
    /\ UNCHANGED <<chatData, videoInterval, intervals, video, isActive, pending,
                   calls, url, inits>>
    /\ UNCHANGED <<duration, detached>>

(* initConfig (content.js 693-720): stored is what the settings store      *)
(* holds for timeOffset, <<>> for null                                     *)
InitConfig(stored) ==
    /\ config' = [loaded |-> TRUE, enableSync |-> TRUE,
                  timeOffset |-> IF stored = <<>> THEN calculateSmartDefaultOffset
                                 ELSE stored[1]]
    /\ UNCHANGED <<chatData, shownMessages, messageList, videoInterval, intervals,
                   video, lastSecond, isActive, duration, detached, pending, calls,
                   url, inits>>

\* the settings store rejects (content.js 711-719)
InitConfigFailed ==
    /\ config' = [loaded |-> TRUE, enableSync |-> TRUE, timeOffset |-> fallbackOffset]
    /\ UNCHANGED <<chatData, shownMessages, messageList, videoInterval, intervals,
                   video, lastSecond, isActive, duration, detached, pending, calls,
                   url, inits>>

----------------------------------------------------------------------------
(* cleanup (content.js 1137-1189).  It clears neither the pending          *)
(* setTimeout callbacks nor the init() calls that are awaiting; the timers *)
(* it leaves behind are marked torn, for the record.                       *)
outlived(p) == [i \in 1 .. Len(p) |-> [p[i] EXCEPT !.torn = TRUE]]

cleanup ==
    /\ pending' = outlived(pending)
    /\ shownMessages' = {}
    /\ messageList' = NoList
    /\ intervals' = intervals \ {videoInterval}
    /\ videoInterval' = 0
    /\ lastSecond' = -1
    /\ video' = FALSE
    /\ detached' = FALSE
    /\ isActive' = FALSE
    /\ chatData' = NoData

(* init (content.js 1025-1129), one action per await that it resumes from  *)

\* init() is called: it reads the page's video id, finds its mapping and
\* starts the fetches (content.js 1030-1099)
callInit(v) == arrive(calls, at("fetch", v, 0))

\* The identity of a newly fetched log: a number no comment object that is
\* still referenced (by the log, the set, the list or a timer) carries.
gensInUse ==
    {c.gen : c \in Range(chatData.comments) \cup shownMessages
                   \cup Range(messageList.children)
                   \cup {pending[i].comment : i \in 1 .. Len(pending)}}
newLog == CHOOSE n \in 1 .. Cardinality(gensInUse) + 1 : n \notin gensInUse

\* the background script answers with the log (content.js 1101-1118)
InitFetched(v) ==
    /\ at("fetch", v, 0) \in DOMAIN calls
    /\ chatData' = Data(v, MakeComments(newLog, ShortStamps, {}, 1))
    /\ calls' = arrive(leave(calls, at("fetch", v, 0)),
                       at("container", v, CHAT_CHECK_INTERVAL))
    /\ UNCHANGED <<shownMessages, messageList, videoInterval, intervals, video,
                   lastSecond, isActive, config, pending, url, inits>>
    /\ UNCHANGED <<duration, detached>>

\* the background script answers with a log that has no comments: chatData
\* is assigned before the test that ends the call (content.js 1105-1114)
InitFetchedEmpty(v) ==
    /\ at("fetch", v, 0) \in DOMAIN calls
    /\ chatData' = Data(v, <<>>)
    /\ isActive' = FALSE
    /\ calls' = leave(calls, at("fetch", v, 0))
    /\ UNCHANGED <<shownMessages, messageList, videoInterval, intervals, video,
                   lastSecond, config, pending, url, inits>>
    /\ UNCHANGED <<duration, detached>>

\* a fetch fails, or a poll for the chat container is the last one
\* (content.js 465-468): the catch at content.js 1124-1128
InitFailed(k) ==
    /\ k \in DOMAIN calls
    /\ k.pc = "fetch" \/ (k.pc = "container" /\ k.due < UPDATE_INTERVAL)
    /\ isActive' = FALSE
    /\ calls' = leave(calls, k)
    /\ UNCHANGED <<chatData, shownMessages, messageList, videoInterval, intervals,
                   video, lastSecond, config, pending, url, inits>>
    /\ UNCHANGED <<duration, detached>>

\* injectChat (content.js 361-426), as waitForChatContainer calls it
injectChat ==
    IF chatData.loaded /\ Len(chatData.comments) > 0 THEN EmptyList ELSE messageList

\* waitForChatContainer finds the container (content.js 453-464) and init
\* goes on into onVideoReady, which starts polling for the video element
InitContainer(k) ==
    /\ k \in DOMAIN calls
    /\ k.pc = "container" /\ k.due < UPDATE_INTERVAL
    /\ messageList' = injectChat
    /\ calls' = arrive(leave(calls, k), at("video", k.vid, VIDEO_CHECK_INTERVAL))
    /\ UNCHANGED <<chatData, shownMessages, videoInterval, intervals, video,
                   lastSecond, isActive, config, pending, url, inits>>
    /\ UNCHANGED <<duration, detached>>

\* the id setInterval returns: one that no live interval has
newInterval(live) == CHOOSE n \in 1 .. Cardinality(live) + 1 : n \notin live

\* the sampling loops left live once onVideoReady has cleared the old one
clearOld_Forgotten(live, held) == live
clearOld(live, held) == live \ {held}

\* getVideoElement resolves: the rest of onVideoReady (content.js 649-684)
\* and of init (content.js 1122)
InitVideo(k) ==
    /\ k \in DOMAIN calls
    /\ k.pc = "video" /\ k.due < UPDATE_INTERVAL
    /\ video' = TRUE
    /\ detached' = FALSE
    /\ IF videoInterval # 0
       THEN /\ shownMessages' = {}
            /\ messageList' = Cleared.list
       ELSE UNCHANGED <<shownMessages, messageList>>
    /\ LET live == IF videoInterval # 0 THEN clearOld(intervals, videoInterval)
                   ELSE intervals
           id == newInterval(intervals)
       IN  /\ videoInterval' = id
           /\ intervals' = live \cup {id}
    /\ isActive' = TRUE
    /\ calls' = leave(calls, k)
    /\ UNCHANGED <<chatData, lastSecond, config, pending, url, inits>>
    /\ UNCHANGED duration

\* getVideoElement rejects: onVideoReady logs it (content.js 685-687) and
\* init carries on to isActive = true.  The 60 polls are taken as one.
InitVideoTimeout(k) ==
    /\ k \in DOMAIN calls
    /\ k.pc = "video" /\ k.due < UPDATE_INTERVAL
    /\ isActive' = TRUE
    /\ calls' = leave(calls, k)
    /\ UNCHANGED <<chatData, shownMessages, messageList, videoInterval, intervals,
                   video, lastSecond, config, pending, url, inits>>
    /\ UNCHANGED <<duration, detached>>

(* handleMessage, case 'resetChat' (content.js 836-842): cleanup, then     *)
(* init 100 ms later                                                       *)
ResetChat ==
    /\ config.enableSync => inits < MaxInits
    /\ cleanup
    /\ calls' = IF config.enableSync THEN callInit(url) ELSE calls
    /\ inits' = IF config.enableSync THEN inits + 1 ELSE inits
    /\ UNCHANGED <<config, url>>
    /\ UNCHANGED duration

(* handleMessage, case 'linkTwitchVOD' (content.js 858-899): init again    *)
LinkTwitchVOD ==
    /\ inits < MaxInits
    /\ calls' = callInit(url)
    /\ inits' = inits + 1
    /\ UNCHANGED <<chatData, shownMessages, messageList, videoInterval, intervals,
                   video, lastSecond, isActive, config, pending, url>>
    /\ UNCHANGED <<duration, detached>>

(* handleMessage, case 'removeManualLink' (content.js 901-937): cleanup    *)
RemoveManualLink ==
    /\ cleanup
    /\ UNCHANGED <<config, calls, url, inits>>
    /\ UNCHANGED duration

(* The URL monitor sees that YouTube went to video v (content.js           *)
(* 1236-1252)                                                              *)
UrlChange(v) ==
    /\ v # url
    /\ config.enableSync => inits < MaxInits
    /\ url' = v
    /\ inits' = IF config.enableSync THEN inits + 1 ELSE inits
    /\ IF isActive THEN cleanup
       ELSE UNCHANGED <<chatData, shownMessages, messageList, videoInterval,
                        intervals, video, lastSecond, isActive, pending,
                        detached>>
    /\ calls' = IF config.enableSync THEN callInit(v) ELSE calls
    /\ UNCHANGED config
    /\ UNCHANGED duration

----------------------------------------------------------------------------
(* The content script from page load: the globals as declared (content.js  *)
(* 19-34), configuration read, and the first init() call made              *)

Init ==
    /\ chatData = NoData
    /\ shownMessages = {}
    /\ messageList = NoList
    /\ videoInterval = 0
    /\ intervals = {}
    /\ video = FALSE
    /\ lastSecond = -1
    /\ isActive = FALSE
    /\ config \in [loaded : {TRUE}, timeOffset : Offsets, enableSync : {TRUE}]
    /\ pending = <<>>
    /\ url = 1
    /\ duration = <<>>
    /\ detached = FALSE
    /\ inits = 0
    /\ calls = arrive(NoCalls, at("fetch", 1, 0))

\* positions sampled in the runs that include session starts and teardowns
SessionTimes == {2 * FarSecond}

Next ==
    \/ \E paused \in BOOLEAN, t \in SessionTimes : Sample(paused, t)
    \/ Elapse
    \/ FireTimer
    \/ \E o \in Offsets, t \in SessionTimes : UpdateSettings(o, t)
    \/ \E v \in Videos :
          \/ InitFetched(v)
          \/ InitFetchedEmpty(v)
          \/ UrlChange(v)
    \/ \E k \in DOMAIN calls : InitFailed(k)
    \/ \E k \in DOMAIN calls : InitContainer(k)
    \/ \E k \in DOMAIN calls : InitVideo(k)
    \/ \E k \in DOMAIN calls : InitVideoTimeout(k)
    \/ ResetChat
    \/ LinkTwitchVOD
    \/ RemoveManualLink

Spec == Init /\ [][Next]_vars

----------------------------------------------------------------------------
(* Tracking: the state init() leaves behind on a page whose log loaded,    *)
(* and the steps of a session that is neither torn down nor restarted      *)

GoodLog == MakeComments(1, LogStamps, {}, 1)
BadLog == MakeComments(1, LogStamps, {2}, 1)

InitTracking ==
    /\ chatData \in {Data(1, GoodLog), Data(1, BadLog)}
    /\ shownMessages = {}
    /\ messageList = EmptyList
    /\ videoInterval = 1
    /\ intervals = {1}
    /\ video = TRUE
    /\ lastSecond = -1
    /\ isActive = TRUE
    /\ config \in [loaded : {TRUE}, timeOffset : Offsets, enableSync : {TRUE}]
    /\ pending = <<>>
    /\ calls = NoCalls
    /\ url = 1
    /\ duration = <<>>
    /\ detached = FALSE
    /\ inits = 0

NextTracking ==
    \/ \E paused \in BOOLEAN, t \in CurrentTimes : Sample(paused, t)
    \/ FireTimer
    \/ \E o \in Offsets, t \in CurrentTimes : UpdateSettings(o, t)

SpecTracking == InitTracking /\ [][NextTracking]_vars

(* Relinked: a session tracking video 1, not yet played, whose log a       *)
(* linkTwitchVOD init() has just fetched again (content.js 858-899); that  *)
(* call now polls for the chat container                                   *)

InitRelinked ==
    /\ chatData = Data(1, MakeComments(2, ShortStamps, {}, 1))
    /\ shownMessages = {}
    /\ messageList = EmptyList
    /\ videoInterval = 1
    /\ intervals = {1}
    /\ video = TRUE
    /\ lastSecond = -1
    /\ isActive = TRUE
    /\ config \in [loaded : {TRUE}, timeOffset : Offsets, enableSync : {TRUE}]
    /\ pending = <<>>
    /\ calls = arrive(NoCalls, at("container", 1, CHAT_CHECK_INTERVAL))
    /\ url = 1
    /\ duration = <<>>
    /\ detached = FALSE
    /\ inits = 0

SpecRelinked == InitRelinked /\ [][Next]_vars

(* Forward playback: the session of InitTracking on a log the Sink accepts, *)
(* sampled only at the second it is at, the next one, or a small jump      *)
(* ahead; no offset change                                                 *)

InitForward ==
    /\ InitTracking
    /\ chatData = Data(1, GoodLog)

ForwardTimes == {2 * sec : sec \in 0 .. MaxSecond + 3} \cup {1, 2 * FarSecond}

NextForward ==
    \/ \E paused \in BOOLEAN, t \in ForwardTimes :
          /\ Floor(t) >= lastSecond
          /\ Floor(t) - lastSecond <= SKIP_THRESHOLD
          /\ Sample(paused, t)
    \/ FireTimer

SpecForward == InitForward /\ [][NextForward]_vars

(* Rejected: the session of InitTracking on the log with an event the Sink *)
(* throws on                                                               *)

InitRejected ==
    /\ InitTracking
    /\ chatData = Data(1, BadLog)

SpecRejected == InitRejected /\ [][NextTracking]_vars

(* Session: the session of InitForward with the steps that tear it down   *)
(* and start it again: resetChat, a URL change, and the init() they call   *)

SessionSampleTimes == {2 * sec : sec \in 0 .. MaxSecond} \cup {2 * FarSecond}

NextSession ==
    \/ \E paused \in BOOLEAN, t \in SessionSampleTimes : Sample(paused, t)
    \/ Elapse
    \/ FireTimer
    \/ \E o \in Offsets, t \in SessionTimes : UpdateSettings(o, t)
    \/ \E v \in Videos : InitFetched(v)
    \/ \E v \in Videos : UrlChange(v)
    \/ \E k \in DOMAIN calls : InitFailed(k)
    \/ \E k \in DOMAIN calls : InitContainer(k)
    \/ \E k \in DOMAIN calls : InitVideo(k)
    \/ ResetChat

SpecSession == InitForward /\ [][NextSession]_vars

(* Offsets: the content script with its configuration not yet read, a log *)
(* fetched or not, and a <video> whose duration is known or not; the steps *)
(* are those that write the configuration                                  *)

NoConfig == [loaded |-> FALSE, timeOffset |-> 0, enableSync |-> TRUE]
ExplicitOffsets == {-1, 0, 1, fallbackOffset}
Durations == {<<>>, <<0>>} \cup {<<2 * OffsetLimit + h>> : h \in 0 .. 4}
LastStamps == {0, 1, OffsetLimit + 100, 2 * OffsetLimit, 2 * OffsetLimit + 1, 10000}

InitOffsets ==
    /\ chatData \in {NoData, Data(1, <<>>)}
                    \cup {Data(1, MakeComments(1, <<last>>, {}, 1)) : last \in LastStamps}
    /\ shownMessages = {}
    /\ messageList = NoList
    /\ videoInterval = 0
    /\ intervals = {}
    /\ video = FALSE
    /\ lastSecond = -1
    /\ isActive = FALSE
    /\ config = NoConfig
    /\ duration \in Durations
    /\ detached = FALSE
    /\ pending = <<>>
    /\ calls = NoCalls
    /\ url = 1
    /\ inits = 0

NextOffsets ==
    \/ \E stored \in {<<>>} \cup {<<o>> : o \in ExplicitOffsets} : InitConfig(stored)
    \/ InitConfigFailed
    \/ \E o \in ExplicitOffsets, t \in SessionTimes : UpdateSettings(o, t)

SpecOffsets == InitOffsets /\ [][NextOffsets]_vars

(* Seek: the session of InitTracking on a log with events at the seconds  *)
(* a seek back can land on                                                 *)

SeekStamps == <<0, 0, 1, 2, 2>>
SeekLog == MakeComments(1, SeekStamps, {}, 1)

InitSeek ==
    /\ chatData = Data(1, SeekLog)
    /\ shownMessages = {}
    /\ messageList = EmptyList
    /\ videoInterval = 1
    /\ intervals = {1}
    /\ video = TRUE
    /\ lastSecond = -1
    /\ isActive = TRUE
    /\ config \in [loaded : {TRUE}, timeOffset : Offsets, enableSync : {TRUE}]
    /\ duration = <<>>
    /\ detached = FALSE
    /\ pending = <<>>
    /\ calls = NoCalls
    /\ url = 1
    /\ inits = 0

SpecSeek == InitSeek /\ [][NextTracking]_vars

(* Thresholds: the session of InitForward sampled at seconds that lie 2,  *)
(* SKIP_THRESHOLD and SKIP_THRESHOLD + 1 apart                             *)

ThresholdSeconds ==
    (0 .. MaxSecond)
        \cup {FarSecond - SKIP_THRESHOLD - 1, FarSecond - SKIP_THRESHOLD, FarSecond}

NextThreshold ==
    \/ \E paused \in BOOLEAN, c \in ThresholdSeconds : Sample(paused, 2 * c)
    \/ FireTimer

SpecThreshold == InitForward /\ [][NextThreshold]_vars

(* Unset: the content script as declared (content.js 19-34) on a page      *)
(* whose settings store holds no offset and never receives one; the        *)
(* <video>'s duration is known at load or becomes known later              *)

KnownDuration == <<2 * (FarSecond + 1)>>

\* the seconds the log's events have under the heuristic offset and under
\* the fallback
UnsetTimes == {0, 2 * (FarSecond + 1), 2 * (FarSecond + fallbackOffset)}

InitUnset ==
    /\ chatData = NoData
    /\ shownMessages = {}
    /\ messageList = NoList
    /\ videoInterval = 0
    /\ intervals = {}
    /\ video = FALSE
    /\ lastSecond = -1
    /\ isActive = FALSE
    /\ config = NoConfig
    /\ duration \in {<<>>, KnownDuration}
    /\ detached = FALSE
    /\ pending = <<>>
    /\ calls = NoCalls
    /\ url = 1
    /\ inits = 0

\* the startup function (content.js 1226-1232): initConfig reads the store,
\* then init() is called
PageLoad(stored) ==
    /\ ~config.loaded
    /\ config' = [loaded |-> TRUE, enableSync |-> TRUE,
                  timeOffset |-> IF stored = <<>> THEN calculateSmartDefaultOffset
                                 ELSE stored[1]]
    /\ calls' = callInit(url)
    /\ UNCHANGED <<chatData, shownMessages, messageList, videoInterval, intervals,
                   video, lastSecond, isActive, duration, detached, pending, url,
                   inits>>

\* the page's <video> loads its metadata
DurationKnown ==
    /\ duration = <<>>
    /\ duration' = KnownDuration
    /\ UNCHANGED <<chatData, shownMessages, messageList, videoInterval, intervals,
                   video, lastSecond, isActive, config, detached, pending, calls,
                   url, inits>>

\* the URL monitor and the message listener are modelled from the moment
\* the configuration is read; before it no init() call is in flight
NextUnset ==
    \/ PageLoad(<<>>)
    \/ DurationKnown
    \/ \E paused \in BOOLEAN, t \in UnsetTimes : Sample(paused, t)
    \/ Elapse
    \/ FireTimer
    \/ \E v \in Videos : InitFetched(v)
    \/ \E v \in Videos : config.loaded /\ UrlChange(v)
    \/ \E k \in DOMAIN calls : InitFailed(k)
    \/ \E k \in DOMAIN calls : InitContainer(k)
    \/ \E k \in DOMAIN calls : InitVideo(k)
    \/ config.loaded /\ ResetChat

SpecUnset == InitUnset /\ [][NextUnset]_vars

(* Sentinel: the session of InitForward with the steps that set           *)
(* lastSecond back to -1 (resetChat and the restart, an offset change),     *)
(* sampled at the seconds on both sides of SKIP_THRESHOLD - 1              *)

SentinelTimes ==
    {2 * sec : sec \in {0, MaxSecond, SKIP_THRESHOLD - 1, SKIP_THRESHOLD, FarSecond}}

NextSentinel ==
    \/ \E paused \in BOOLEAN, t \in SentinelTimes : Sample(paused, t)
    \/ Elapse
    \/ FireTimer
    \/ \E o \in Offsets, t \in SessionTimes : UpdateSettings(o, t)
    \/ \E v \in Videos : InitFetched(v)
    \/ \E k \in DOMAIN calls : InitFailed(k)
    \/ \E k \in DOMAIN calls : InitContainer(k)
    \/ \E k \in DOMAIN calls : InitVideo(k)
    \/ ResetChat

SpecSentinel == InitForward /\ [][NextSentinel]_vars

(* Overlap: the session of InitForward under every step of the content    *)
(* script, so that init() calls run while a session is tracking            *)

SpecOverlap == InitForward /\ [][Next]_vars

(* Detached: the steps of Session, and the page removing the <video>      *)

NextDetached ==
    \/ NextSession
    \/ VideoRemoved

SpecDetached == InitForward /\ [][NextDetached]_vars

----------------------------------------------------------------------------
(* Properties                                                              *)

feed == messageList.children
timerComments(p) == [i \in 1 .. Len(p) |-> p[i].comment]
sinkAcceptsLog == \A c \in Range(chatData.comments) : ~c.bad
\* the events of the log with adjusted timestamp in lo..hi, in log order
eventsIn(lo, hi, cfg) ==
    SelectSeq(chatData.comments, LAMBDA c : Adjusted(c, cfg) >= lo /\ Adjusted(c, cfg) <= hi)
eventsBefore(second, cfg) ==
    SelectSeq(chatData.comments, LAMBDA c : Adjusted(c, cfg) < second)
lastN(s, n) == SubSeq(s, Max(1, Len(s) - n + 1), Len(s))
\* a sampling callback that got past its early returns ran in this step
sampled == lastSecond' # lastSecond /\ lastSecond' # -1

\* C1: no event is in the feed twice: every clear of shownMessages clears the
\* feed with it, so two entries of one event were both appended since the
\* last clear.
C1_NoEventTwiceInFeed ==
    \A i, j \in 1 .. Len(feed) : i # j => feed[i] # feed[j]

\* C2: in forward-only playback on a log the Sink accepts, once no staggered
\* reveal is pending, every event whose adjusted timestamp is one of the
\* seconds 0..lastSecond is in the feed.
C2_NothingMissedForward ==
    pending = <<>> =>
        \A c \in Range(chatData.comments) :
            (Adjusted(c, config) >= 0 /\ Adjusted(c, config) <= lastSecond)
                => c \in Range(feed)

\* the playhead went past events, some of them staggered, and all are shown
C2_Witness ==
    /\ lastSecond = FarSecond
    /\ pending = <<>>
    /\ Len(feed) = Len(LogStamps)

\* C3: a sample that is a large jump to second c leaves in the feed, in log
\* order, exactly the min(25, k) latest events with adjusted timestamp < c,
\* has exactly those in shownMessages, and has a staggered reveal pending for
\* each event at c.  Stated for logs the Sink accepts.
C3_LargeJumpBackfill ==
    [][(sampled /\ isLargeJump(lastSecond', lastSecond) /\ sinkAcceptsLog)
         => LET context == lastN(eventsBefore(lastSecond', config),
                                 PREVIOUS_MESSAGES_COUNT)
            IN  /\ feed' = context
                /\ shownMessages' = Range(context)
                /\ \A c \in Range(eventsIn(lastSecond', lastSecond', config)) :
                      c \in Range(timerComments(pending'))]_vars

\* C4: a sample that is a small forward jump from p to c appends to the feed,
\* in log order, exactly the events with adjusted timestamp in p+1..c that
\* were not in shownMessages, adds exactly those to shownMessages, and
\* schedules no staggered reveal.
C4_SmallForwardJump ==
    [][(sampled /\ lastSecond' > lastSecond /\ isSmallJump(lastSecond', lastSecond))
         => LET missed == SelectSeq(eventsIn(lastSecond + 1, lastSecond', config),
                                    LAMBDA c : c \notin shownMessages)
            IN  /\ feed' = feed \o missed
                /\ shownMessages' = shownMessages \cup Range(missed)
                /\ timerComments(pending') = timerComments(pending)]_vars

\* C5: every event with a pending staggered reveal is in shownMessages, and
\* no event has two pending reveals.
C5_MarkedWhenScheduled ==
    /\ \A i \in 1 .. Len(pending) : pending[i].comment \in shownMessages
    /\ \A i, j \in 1 .. Len(pending) :
          i # j => pending[i].comment # pending[j].comment

\* what a large jump to second c leaves in shownMessages and the feed under
\* configuration cfg
largeJumpTo(c, cfg) == showPreviousMessages(Cleared, c, cfg)

\* C6 as stated: once an offset change at second c has refreshed the chat
\* (lastSecond is -1, set and feed are the backfill of c under the new
\* offset), the following unpaused sample at c leaves shownMessages and the
\* feed holding exactly that backfill, for every c >= 0.
C6_RefreshIsLargeJump ==
    [][\A t \in CurrentTimes :
          (/\ lastSecond = -1
           /\ Store = largeJumpTo(Floor(t), config)
           /\ Sample(FALSE, t))
          => /\ shownMessages' = largeJumpTo(Floor(t), config).shown
             /\ messageList' = largeJumpTo(Floor(t), config).list]_vars

\* C6, amended: an offset change while tracking at second c leaves
\* shownMessages and the feed as a large jump to c under the new offset
\* leaves them, with lastSecond -1; and when c >= SKIP_THRESHOLD the
\* following unpaused sample at c, which sets lastSecond to c, is that large
\* jump: set and feed are again exactly that backfill, and the events at c
\* are scheduled.
C6_RefreshIsLargeJumpFromFar ==
    [][/\ \A o \in Offsets, t \in CurrentTimes :
            (/\ o # config.timeOffset
             /\ isActive /\ video /\ chatData.loaded /\ messageList.present
             /\ UpdateSettings(o, t))
            => /\ lastSecond' = -1
               /\ Store' = largeJumpTo(Floor(t), config')
       /\ \A t \in CurrentTimes :
            (/\ lastSecond = -1
             /\ Floor(t) >= SKIP_THRESHOLD
             /\ lastSecond' = Floor(t)
             /\ Store = largeJumpTo(Floor(t), config)
             /\ Sample(FALSE, t))
            => /\ Store' = Store
               /\ pending' = setTimeouts(elapse(pending, UPDATE_INTERVAL),
                                 showCurrentSecondMessages(shownMessages', Floor(t),
                                                           config))]_vars

\* an offset change at the far second has refreshed the chat with a backfill
\* that is not empty
C6_Witness ==
    /\ lastSecond = -1
    /\ shownMessages # {}
    /\ Store = largeJumpTo(FarSecond, config)

\* C7: a sample while paused, and an unpaused sample at the second lastSecond
\* holds, change neither lastSecond nor shownMessages nor the feed, and
\* schedule nothing: only the clock moves.  (Every step either changes
\* nothing but the timers' ages, or is no such sample.)
C7_NoOpTick ==
    [][\/ /\ UNCHANGED <<lastSecond, shownMessages, messageList, chatData,
                         videoInterval, intervals, video, isActive, config>>
          /\ pending' = elapse(pending, UPDATE_INTERVAL)
       \/ \A paused \in BOOLEAN, t \in CurrentTimes :
             ~((paused \/ Floor(t) = lastSecond) /\ Sample(paused, t))]_vars

\* samples that did nothing: two staggered reveals of second 1 (offset 0) have
\* waited 200 ms while lastSecond stayed 1
C7_Witness ==
    /\ lastSecond = 1
    /\ shownMessages = {GoodLog[1]}
    /\ Len(pending) = 2
    /\ pending[1].rem = 133
    /\ pending[2].rem = 466

\* C8: on a forward tick by exactly 1, the n events of the new second that
\* are not in shownMessages get one new timer each, the i-th in log order
\* (from 0) with delay i*1000/n ms (integer part); the delays increase
\* strictly with i and are below 1000; the new timers stand in the queue in
\* log order; for n = 4 the delays are 0, 250, 500, 750.
C8_StaggerDelays ==
    [][/\ <<staggerDelay(0, 4), staggerDelay(1, 4), staggerDelay(2, 4),
            staggerDelay(3, 4)>> = <<0, 250, 500, 750>>
       /\ (sampled /\ lastSecond' = lastSecond + 1)
            => LET sel == unshownAt(shownMessages, lastSecond', config)
                   n == Len(sel)
                   aged == elapse(pending, UPDATE_INTERVAL)
                   new == [i \in 1 .. n |->
                             [comment |-> sel[i], rem |-> ((i - 1) * 1000) \div n,
                              torn |-> FALSE]]
               IN  /\ Len(pending') = Len(pending) + n
                   /\ pending' = setTimeouts(aged, new)
                   /\ \A i \in 1 .. n : new[i].rem < 1000
                   /\ \A i, j \in 1 .. n : i < j => new[i].rem < new[j].rem
                   /\ \A i, j \in 1 .. n : i < j =>
                         \E a, b \in 1 .. Len(pending') :
                            a < b /\ pending'[a] = new[i] /\ pending'[b] = new[j]]_vars

\* the tick from second 0 to second 1 (offset 0) has scheduled the three
\* events of second 1
C8_Witness ==
    /\ lastSecond = 1
    /\ shownMessages = {}
    /\ Len(pending) = 3
    /\ <<pending[1].rem, pending[2].rem, pending[3].rem>> = <<0, 333, 666>>

\* C9: a staggered reveal that was pending when cleanup ran changes neither
\* shownMessages nor any feed when it runs, whatever has started since.
C9_TornTimersRevealNothing ==
    [][(pending # <<>> /\ Head(pending).torn /\ pending' = Tail(pending))
         => UNCHANGED <<shownMessages, messageList>>]_vars

\* C10: at most one sampling loop is live.
C10_OneSamplingLoop == Cardinality(intervals) <= 1

\* onVideoReady started a loop while the variable held one, and only the new
\* one is live
C10_Witness ==
    /\ videoInterval = 2
    /\ intervals = {2}

\* the state cleanup leaves: no event revealed, no sampling loop, the
\* sentinel, no log, not active
tornDown ==
    /\ shownMessages = {}
    /\ intervals = {}
    /\ videoInterval = 0
    /\ lastSecond = -1
    /\ ~chatData.loaded
    /\ ~isActive

\* C11: a URL change to another video, and a resetChat, taken in a state where
\* a sampling loop is live, leave the session torn down: shownMessages empty,
\* no loop live, lastSecond -1, chatData dropped, isActive false.
C11_NavigationTearsDown ==
    [][(intervals # {} /\ (url' # url \/ ResetChat)) => tornDown']_vars

\* a session is tracking the log of video v on the page of video v
tracking(v) ==
    /\ isActive
    /\ intervals # {}
    /\ chatData.loaded /\ chatData.vid = v
    /\ url = v

\* C12: every step of an init() call for video v taken while a session is
\* tracking video v leaves shownMessages, the feed, lastSecond and the
\* sampling loop as they were.
C12_InitIdempotent ==
    [][\A k \in DOMAIN calls :
          (/\ tracking(k.vid)
           /\ InitFetched(k.vid) \/ InitContainer(k) \/ InitVideo(k))
          => UNCHANGED <<shownMessages, messageList, lastSecond, intervals,
                         videoInterval>>]_vars

\* C13: a step that ends an init() call in failure (the fetch fails, the log
\* is empty, the container wait rejects, or the video element never appears)
\* leaves the session not active, no sampling loop live, no log loaded and
\* shownMessages empty.
C13_FailedInitLeavesNothing ==
    [][\A k \in DOMAIN calls :
          (InitFailed(k) \/ InitFetchedEmpty(k.vid) \/ InitVideoTimeout(k))
          => /\ ~isActive'
             /\ intervals' = {}
             /\ ~chatData'.loaded
             /\ shownMessages' = {}]_vars

\* the events one backfill visits when the second moves from lastSecond to
\* currentSecond: the slice of the log the large-jump loop indexes, or the
\* not-yet-revealed events of the small jump's seconds
backfillBatch(currentSecond) ==
    IF isLargeJump(currentSecond, lastSecond)
    THEN LET firstIdx == reverseFindIndex(chatData.comments, currentSecond, config)
         IN  IF firstIdx = -1 THEN <<>>
             ELSE SubSeq(chatData.comments,
                         Max(0, firstIdx - PREVIOUS_MESSAGES_COUNT) + 1, firstIdx)
    ELSE IF isSmallJump(currentSecond, lastSecond)
    THEN SelectSeq(eventsIn(Min(lastSecond, currentSecond) + 1,
                            Max(lastSecond, currentSecond), config),
                   LAMBDA c : c \notin shownMessages)
    ELSE <<>>

\* C14: a Sink failure on one event does not keep the other events of its
\* batch from the feed: after a sampling callback every event of the backfill
\* batch that the Sink accepts is in the feed or has its staggered reveal
\* scheduled, and a staggered reveal that runs leaves the timers after it
\* pending.
C14_SinkFailureKeepsBatch ==
    [][/\ sampled =>
            \A c \in Range(backfillBatch(lastSecond')) :
                ~SinkThrows(c) =>
                    c \in Range(feed') \cup Range(timerComments(pending'))
       /\ FireTimer => pending' = Tail(pending)]_vars

\* the reveals one sampling callback has executed when it reaches the
\* assignment lastSecond = currentSecond (content.js 679): the backfill
\* branches (664-677) run before it, showCurrentSecondMessages (680) and its
\* timers after it
revealsBeforeAssignment(currentSecond) ==
    LET st == backfill(currentSecond)
        kept == IF isLargeJump(currentSecond, lastSecond) THEN 0 ELSE Len(feed)
    IN  SubSeq(st.list.children, kept + 1, Len(st.list.children))

\* C15: in every sampling callback that finds a new second, lastSecond is
\* assigned the new second before any reveal of that callback executes: no
\* event is appended to the feed between the test on the second and the
\* assignment.
C15_AssignedBeforeAnyReveal ==
    [][sampled => revealsBeforeAssignment(lastSecond') = <<>>]_vars

\* the whole seconds video.currentTime is sampled in
Seconds == {Floor(t) : t \in CurrentTimes}

\* the Sink threw inside the backfill of a callback finding currentSecond:
\* showMessage marks an event before createChatMessage throws on it
backfillThrew(currentSecond) ==
    LET before == IF isLargeJump(currentSecond, lastSecond) THEN {} ELSE shownMessages
    IN  \E c \in backfill(currentSecond).shown \ before : SinkThrows(c)

\* C16: a sampling callback that finds a new second c and in whose backfill
\* the Sink throws still ends with lastSecond = c, so that a sample at the
\* same second is skipped.
C16_FailureNotReprocessed ==
    [][\A c \in Seconds :
          (/\ ~skips(FALSE, c)
           /\ backfillThrew(c)
           /\ Sample(FALSE, 2 * c))
          => /\ lastSecond' = c
             /\ skips(FALSE, c)']_vars

C16_Witness ==
    /\ lastSecond = 2
    /\ pending = <<>>
    /\ config.timeOffset = 0
    /\ \E c \in shownMessages : c.bad /\ c \notin Range(feed)
    /\ \E c \in Range(chatData.comments) : c.ts = 1 /\ ~c.bad /\ c \notin shownMessages

\* the events the claim lets empty shownMessages
offsetChanged == config'.timeOffset # config.timeOffset /\ isActive /\ video
largeJumped == sampled /\ Abs(lastSecond' - lastSecond) > SKIP_THRESHOLD
sessionReset ==
    \/ videoInterval' # videoInterval
    \/ ResetChat
    \/ RemoveManualLink
    \/ \E v \in Videos : UrlChange(v)

\* C17: a step either keeps every member of shownMessages, or it is an
\* offset change while tracking, a large jump, or a teardown or restart of
\* the session; and each of those leaves in shownMessages only what it
\* revealed itself, starting from the empty set.
C17_RevealedSetGrowsOrIsCleared ==
    [][/\ \/ shownMessages \subseteq shownMessages'
          \/ offsetChanged
          \/ largeJumped
          \/ sessionReset
       /\ largeJumped => shownMessages' = largeJumpTo(lastSecond', config).shown
       /\ (offsetChanged /\ chatData.loaded /\ messageList.present) =>
             \E t \in CurrentTimes :
                 shownMessages' = largeJumpTo(Floor(t), config').shown
       /\ (videoInterval' # videoInterval /\ videoInterval # 0) =>
             shownMessages' = {}]_vars

\* a session started again after a reset has revealed the events of its own
\* log, and nothing of the first log is left in the set
C17_Witness ==
    /\ inits = 1
    /\ isActive
    /\ lastSecond = FarSecond
    /\ Cardinality(shownMessages) = 2
    /\ \A c \in shownMessages : c.gen # 1

C19_HeuristicOrFallback ==
    [][LET floorOf(d, last) ==
               CHOOSE n \in -10000 .. 10000 :
                   2 * n <= d - 2 * last /\ d - 2 * last < 2 * (n + 1)
           resolved(d, last) ==
               IF d = <<>> \/ last = <<>> THEN 900
               ELSE IF d[1] <= 0 \/ last[1] <= 0 THEN 900
               ELSE IF floorOf(d[1], last[1]) \in -3600 .. 3600
                    THEN floorOf(d[1], last[1])
                    ELSE 900
       IN  /\ ~config.loaded =>
                 getTimeOffset(config) = resolved(duration, lastChatTimestamp)
           /\ InitConfig(<<>>) =>
                 config'.timeOffset = resolved(duration, lastChatTimestamp)]_vars

\* initConfig stored the heuristic's value for the claim's example: a video
\* of 3600 s against a last event at 3700 s gives -100
C19_Witness ==
    /\ config.loaded
    /\ duration = <<7200>>
    /\ lastChatTimestamp = <<3700>>
    /\ config.timeOffset = -100

\* the configuration with its offset moved by k
shifted(k) == [config EXCEPT !.timeOffset = @ + k]
Shifts == -2 .. 2
QuerySeconds == (-2 .. MaxSecond + 2) \cup (FarSecond - 2 .. FarSecond + 2)

\* C20: with shownMessages as it is, each query run at second s with the
\* offset moved by k gives what it gives at second s - k with the offset as
\* it is: the not-yet-revealed events at a second (showMissedMessages,
\* showCurrentSecondMessages) and the position of the last event before a
\* second (showPreviousMessages).
C20_OffsetShiftsSeconds ==
    \A k \in Shifts, s \in QuerySeconds :
        /\ unshownAt(shownMessages, s, shifted(k)) = unshownAt(shownMessages, s - k, config)
        /\ reverseFindIndex(chatData.comments, s, shifted(k))
              = reverseFindIndex(chatData.comments, s - k, config)
        /\ showCurrentSecondMessages(shownMessages, s, shifted(k))
              = showCurrentSecondMessages(shownMessages, s - k, config)

\* some events are revealed, and a query under a moved offset selects others
C20_Witness ==
    /\ shownMessages # {}
    /\ \E k \in Shifts \ {0}, s \in QuerySeconds :
          /\ unshownAt(shownMessages, s, shifted(k)) # <<>>
          /\ unshownAt(shownMessages, s, config) = <<>>

\* C21: once the element the session samples has left the document, the
\* next sampling callback leaves the session idle: no sampling loop live,
\* shownMessages empty, lastSecond unset, the session not active.
C21_MediaLossDemotes ==
    [][\A paused \in BOOLEAN, t \in SessionSampleTimes :
          (detached /\ Sample(paused, t))
          => /\ intervals' = {}
             /\ shownMessages' = {}
             /\ lastSecond' = -1
             /\ ~isActive']_vars

\* C22: an updateSettings message that arrives while the session is not
\* active or no video element is held stores the offset and nothing else:
\* shownMessages, the feed, lastSecond, the sampling loop and the pending
\* reveals are as before.
C22_IdleOffsetChangeOnlyStores ==
    [][(/\ ~isActive \/ ~video
        /\ config'.timeOffset # config.timeOffset)
       => UNCHANGED <<shownMessages, messageList, lastSecond, intervals,
                      videoInterval, pending>>]_vars

\* a session that is reported inactive still holds a video element, a log, a
\* feed and revealed events: a refresh would not return early
C22_Witness ==
    /\ ~isActive
    /\ video /\ chatData.loaded /\ messageList.present
    /\ shownMessages # {}

\* the events one sampling callback finding currentSecond reveals, in the
\* order they reach the feed: those its backfill appends, then those it
\* schedules, by delay
tickReveals(currentSecond) ==
    LET st == backfill(currentSecond)
    IN  revealsBeforeAssignment(currentSecond)
            \o timerComments(showCurrentSecondMessages(st.shown, currentSecond, config))

\* C23: the events one sampling callback reveals, at once or staggered, reach
\* the feed in the order of the log, which is the order of their timestamps.
C23_TickRevealsInLogOrder ==
    [][sampled =>
          LET seq == tickReveals(lastSecond')
          IN  \A i, j \in 1 .. Len(seq) : i < j => seq[i].idx < seq[j].idx]_vars

\* C24: a sampling callback that finds the second changed by more than one
\* and at most SKIP_THRESHOLD, in either direction, appends to the feed at
\* once exactly the events not yet revealed whose adjusted second lies
\* between the previous and the new second, both included, in log order.
C24_SmallJumpRevealsInclusiveRange ==
    [][(/\ sampled
        /\ Abs(lastSecond' - lastSecond) > 1
        /\ Abs(lastSecond' - lastSecond) <= SKIP_THRESHOLD)
       => revealsBeforeAssignment(lastSecond')
            = SelectSeq(chatData.comments,
                        LAMBDA e : /\ e \notin shownMessages
                                   /\ Adjusted(e, config) >= Min(lastSecond, lastSecond')
                                   /\ Adjusted(e, config) <= Max(lastSecond, lastSecond'))]_vars

\* C25: the classification follows the thresholds exactly.  A sampling
\* callback that finds the second changed by more than SKIP_THRESHOLD clears
\* the RevealedSet and the feed and reveals the context; one that finds it
\* changed by more than one and at most SKIP_THRESHOLD (by 2, by 15) clears
\* nothing and reveals the seconds between; one that finds it changed by one
\* reveals nothing at once.  The three cases exclude each other.
C25_ThresholdsExact ==
    [][sampled =>
          LET d == Abs(lastSecond' - lastSecond)
              c == lastSecond'
              large == largeJumpTo(c, config)
              small == showMissedMessages(Store, Min(lastSecond, c) + 1,
                                          Max(lastSecond, c), config)
          IN  /\ d >= SKIP_THRESHOLD + 1
                    => shownMessages' = large.shown /\ messageList' = large.list
              /\ (d >= 2 /\ d <= SKIP_THRESHOLD)
                    => /\ shownMessages' = small.shown /\ messageList' = small.list
                       /\ shownMessages \subseteq shownMessages'
                       /\ SubSeq(feed', 1, Len(feed)) = feed
              /\ d = 1 => UNCHANGED <<shownMessages, messageList>>]_vars

C25_Witness ==
    /\ lastSecond = FarSecond
    /\ config.timeOffset = 0
    /\ Len(feed) = Len(chatData.comments)
    /\ \A c \in Range(chatData.comments) : c \in shownMessages

\* C26: with no offset in the settings store, once a session tracks a log
\* and a <video> for which the heuristic is defined and in range (duration
\* and last timestamp positive, their floored difference within
\* OffsetLimit), the offset its reveal queries use is that difference.
C26_HeuristicOffsetUsed ==
    (/\ isActive /\ video /\ intervals # {}
     /\ duration # <<>> /\ lastChatTimestamp # <<>>
     /\ duration[1] > 0 /\ lastChatTimestamp[1] > 0
     /\ calculatedOffset(duration[1], lastChatTimestamp[1]) >= -OffsetLimit
     /\ calculatedOffset(duration[1], lastChatTimestamp[1]) <= OffsetLimit)
    => getTimeOffset(config) = calculatedOffset(duration[1], lastChatTimestamp[1])

\* C27: a sampling callback that finds the second one less than lastSecond
\* clears nothing and reveals nothing at once: shownMessages and the feed
\* stay as they were, and the only new timers are those of the not yet
\* revealed events of the new second, in log order with the stagger delays.
C27_OneSecondBackIsATick ==
    [][(sampled /\ lastSecond' = lastSecond - 1)
         => LET sel == SelectSeq(chatData.comments,
                                 LAMBDA e : /\ Adjusted(e, config) = lastSecond'
                                            /\ e \notin shownMessages)
                n == Len(sel)
                new == [i \in 1 .. n |->
                          [comment |-> sel[i], rem |-> ((i - 1) * 1000) \div n,
                           torn |-> FALSE]]
            IN  /\ UNCHANGED <<shownMessages, messageList>>
                /\ pending' = setTimeouts(elapse(pending, UPDATE_INTERVAL), new)]_vars

\* back from second 1 to second 0 (offset 0): the event of second 0 whose
\* first timer is still waiting has been scheduled again, the event of
\* second 1 stays revealed, second 2 was never reached
C27_Witness ==
    /\ lastSecond = 0
    /\ config.timeOffset = 0
    /\ shownMessages = {SeekLog[1], SeekLog[3]}
    /\ feed = <<SeekLog[1], SeekLog[3]>>
    /\ timerComments(pending) = <<SeekLog[2], SeekLog[2]>>
    /\ pending[1].rem = 0

\* C28: lastSecond = -1 is classified by the same arithmetic as a real
\* second.  The first sampling callback that finds a second c while
\* lastSecond is -1 reveals nothing at once when c = 0, reveals at once the
\* not yet revealed events of seconds 0 .. c, clearing nothing, when
\* 1 <= c <= SKIP_THRESHOLD - 1, and clears and reveals the context when
\* c >= SKIP_THRESHOLD.
C28_SentinelIsArithmetic ==
    [][(sampled /\ lastSecond = -1)
         => LET c == lastSecond'
                large == largeJumpTo(c, config)
                small == showMissedMessages(Store, 0, c, config)
            IN  /\ c = 0 => UNCHANGED <<shownMessages, messageList>>
                /\ (c >= 1 /\ c <= SKIP_THRESHOLD - 1)
                     => /\ shownMessages' = small.shown /\ messageList' = small.list
                        /\ shownMessages \subseteq shownMessages'
                /\ c >= SKIP_THRESHOLD
                     => shownMessages' = large.shown /\ messageList' = large.list]_vars

\* the first sample of a session, at second SKIP_THRESHOLD - 1 (offset 0):
\* the four events of seconds 1 and 2 were revealed at once, nothing is
\* scheduled
C28_Witness ==
    /\ lastSecond = SKIP_THRESHOLD - 1
    /\ config.timeOffset = 0
    /\ chatData.comments = GoodLog
    /\ feed = SubSeq(GoodLog, 1, 4)
    /\ pending = <<>>

\* the staggered reveals that were pending before a step and are pending
\* after it, their wait the same or shorter by one sampling period
survivors ==
    {t \in Range(pending) :
        \E j \in 1 .. Len(pending') :
            /\ pending'[j].comment = t.comment
            /\ pending'[j].rem \in {t.rem, Max(0, t.rem - UPDATE_INTERVAL)}}

\* the step cleared shownMessages and the feed: a large jump, or an offset
\* change that reached the clear of refreshChatWithNewOffset
clearedFeed ==
    \/ largeJumped
    \/ offsetChanged /\ chatData.loaded /\ messageList.present

\* C29: once a large jump or an offset change has cleared shownMessages and
\* the feed, no staggered reveal scheduled before the clear adds its event
\* to them: a reveal that was pending before the clearing step and is still
\* pending after it changes neither shownMessages nor the feed when it runs.
C29_NoStaleRevealAfterClear ==
    [][clearedFeed =>
          \A t \in survivors :
             LET st == showMessage([shown |-> shownMessages', list |-> messageList',
                                    threw |-> FALSE], t.comment)
             IN  st.shown = shownMessages' /\ st.list = messageList']_vars

\* C30: shownMessages and the feed stay in step: in every reachable state
\* the events in shownMessages are exactly the events displayed in
\* messageList.
C30_SetEqualsFeed ==
    shownMessages = Range(feed)

\* C31: whenever isActive is false and no init() call is in progress, no
\* sampling loop is live.
C31_InactiveHasNoLoop ==
    (~isActive /\ calls = NoCalls) => intervals = {}

\* C32: once every init() call has completed and the session is active, the
\* log that is loaded is the log of the video the page is on.
C32_LogOfCurrentVideo ==
    (calls = NoCalls /\ isActive /\ chatData.loaded) => chatData.vid = url

\* C33: a teardown is final for the init() calls in flight: a call that was
\* awaiting its video element when cleanup ran, and that no later call
\* accompanies, neither creates a sampling loop nor sets isActive when it
\* resumes.  (Only cleanup unloads the log, and a later init() call would be
\* in flight or would have loaded a log again.)
C33_TeardownIsFinal ==
    [][\A k \in DOMAIN calls :
          (/\ ~chatData.loaded
           /\ DOMAIN calls = {k} /\ calls[k] = 1
           /\ InitVideo(k) \/ InitVideoTimeout(k))
          => /\ intervals' = intervals
             /\ ~isActive']_vars

\* C34: whenever onVideoReady replaces a sampling loop and clears
\* shownMessages and the feed, lastSecond is -1 afterwards, so that the
\* restarted loop's first unpaused sample is processed as a change.
C34_RestartResetsLastSecond ==
    [][(/\ videoInterval # 0
        /\ videoInterval' # 0
        /\ videoInterval' # videoInterval)
       => /\ shownMessages' = {}
          /\ lastSecond' = -1]_vars

====
